---- MODULE Spec2Model ----
(***************************************************************************)
(* Model of yass/cluster/util.py: the per-channel clustering orchestrators *)
(* run_cluster and run_cluster_location, clean_empty_cluster, the global   *)
(* aggregator global_cluster_info, and the merge engine (try_merge,        *)
(* merge_move_patches) working on calculate_maha_clusters' matrix; and the *)
(* feature clustering run_cluster_features with its stability loop         *)
(* run_mfm.                                                                *)
(*                                                                         *)
(* Responsibilities are exact fractions held on an integer scale: the     *)
(* number One stands for 1.0, and NaN (numpy's 0/0) is a negative value.   *)
(* Arrays are 1-based sequences; the ids stored INSIDE triplets (spike id, *)
(* component id) and in queues are 0-based, as in the Python code.         *)
(***************************************************************************)
EXTENDS Integers, Sequences, FiniteSets, TLC

VARIABLES
    orch,               \* which orchestrator runs: "run_cluster" / "run_cluster_location"
    min_spikes,         \* the min_spikes argument (whole spikes)
    spike_index,        \* input: sequence of <<time, channel>>
    scores,             \* input: sequence of feature-vector ids, parallel to spike_index
    n_channels,         \* np.max(spike_index[:, 1]) + 1
    channel,            \* loop variable of "for channel in range(n_channels)"
    pc,                 \* position inside the loop body / after the loop
    idx_data,           \* np.where(spike_index[:, 1] == channel)[0] (1-based rows)
    vbParam,            \* the channel's mixture state
    global_vbParam,     \* global mixture state (none |-> TRUE while None)
    global_tmp_loc,     \* origin channel of every global component
    global_score,       \* concatenated feature rows
    global_spike_index, \* concatenated spike references
    fold_log,           \* history: one record per call of global_cluster_info
    clean_log,          \* history: one record per call of clean_empty_cluster
    fitted,             \* history: channels mfm.spikesort was invoked for
    engine,             \* merge phase: "try_merge" or "merge_move_patches"
    maha,               \* the distance matrix
    cluster,            \* merge_move_patches: the anchor (0-based)
    neigh_clusters,     \* merge_move_patches: the candidate queue (0-based ids)
    last_op,            \* history: the merge attempt made by the last step
    ident,              \* history: a stable name for every global component
    rejected,           \* history: the pairs the merge test rejected
    mmp_log,            \* history: component count at the call of
                        \* merge_move_patches, merges accepted since, and
                        \* whether the queue passed held the whole gate
    idx_keep1,          \* run_cluster_features: the triage mask of the channel's spikes
    indexes,            \* run_cluster_features: rows of the spikes kept (1-based)
    index_vals,         \* run_mfm: the points still in the working set (0-based)
    vbParam2,           \* run_mfm: rhat of the current fit, floored and renormalised
    rolling_index_array,\* run_mfm: the groups extracted so far
    rounds,             \* run_mfm: iterations of "for s in range(1000)" completed
    mfm_exit,           \* history: how the stability loop was left
    cluster_ctr,        \* run_cluster_features: the next cluster id
    spike_list,         \* run_cluster_features: one (time, id) array per group
    tmp_loc,            \* run_cluster_features: origin channel per cluster id
    spike_train_clustered \* run_cluster_features: the returned spike train

vars == <<orch, min_spikes, spike_index, scores, n_channels, channel, pc,
          idx_data, vbParam, global_vbParam, global_tmp_loc, global_score,
          global_spike_index, fold_log, clean_log, fitted, engine, maha,
          cluster, neigh_clusters, last_op, ident, rejected, mmp_log,
          idx_keep1, indexes, index_vals, vbParam2, rolling_index_array,
          rounds, mfm_exit, cluster_ctr, spike_list, tmp_loc,
          spike_train_clustered>>

mergeVars == <<engine, maha, cluster, neigh_clusters, last_op, ident, rejected,
               mmp_log>>

inputVars == <<orch, min_spikes, spike_index, scores, n_channels>>

featVars == <<idx_keep1, indexes, index_vals, vbParam2, rolling_index_array,
              rounds, mfm_exit, cluster_ctr, spike_list, tmp_loc,
              spike_train_clustered>>

orchVars == <<idx_data, vbParam, global_vbParam, global_tmp_loc, global_score,
              global_spike_index, fold_log, clean_log, fitted>>

----------------------------------------------------------------------------
(* Bounds of the model *)

MaxSpikes == 4       \* spikes in the input spike_index
MaxChannels == 3     \* channel ids are 0 .. MaxChannels-1
MaxK == 2            \* components the fitter gives mass to in non-diffuse rows
MaxMinSpikes == 1    \* min_spikes ranges over 0 .. MaxMinSpikes

(* Program constants *)

FloorNum == 1        \* the floor 0.1 = FloorNum / FloorDen
FloorDen == 10

----------------------------------------------------------------------------
(* Numbers *)

RECURSIVE Gcd(_, _)
Gcd(a, b) == IF b = 0 THEN a ELSE Gcd(b, a % b)

Lcm(a, b) == (a * b) \div Gcd(a, b)

RECURSIVE LcmUpTo(_)
LcmUpTo(n) == IF n <= 1 THEN 1 ELSE Lcm(n, LcmUpTo(n - 1))

\* The fitter's probabilities are multiples of 1/Unit.  Unit is the smallest
\* number of components over which a row that sums to 1 can lie entirely
\* below the floor (with the 0.1 floor: 11 components of 1/11 each).
Unit == (FloorDen \div FloorNum) + 1

\* 1.0 on the integer scale; every row sum 1..Unit divides it, so that the
\* renormalised values are exact.
One == LcmUpTo(Unit)

NaN == 0 - 1
IsNaN(x) == x < 0

\* x + y of IEEE floats restricted to {NaN} \cup non-negative fractions
Add(x, y) == IF IsNaN(x) \/ IsNaN(y) THEN NaN ELSE x + y

\* x / s as numpy divides: 0/0 is NaN, anything with NaN is NaN
Div(x, s) ==
    IF IsNaN(x) \/ IsNaN(s) THEN NaN
    ELSE IF s = 0 THEN NaN
    ELSE (x * One) \div s

\* x > y of IEEE floats: FALSE when either side is NaN
Gt(x, y) == ~IsNaN(x) /\ ~IsNaN(y) /\ x > y

Min(a, b) == IF a < b THEN a ELSE b
Max(a, b) == IF a > b THEN a ELSE b

RECURSIVE SumSeq(_)
SumSeq(s) == IF s = <<>> THEN 0 ELSE Add(Head(s), SumSeq(Tail(s)))

\* np.max of a set of ids; -1 stands for "no id" (callers guard the empty case)
MaxOf(S) ==
    IF S = {} THEN 0 - 1
    ELSE LET x == CHOOSE y \in S : \A z \in S : z <= y IN x

\* the subsequence of s at the positions (ascending) where keep is TRUE
RECURSIVE Compress(_, _)
Compress(s, keep) ==
    IF s = <<>> THEN <<>>
    ELSE IF Head(keep) THEN <<Head(s)>> \o Compress(Tail(s), Tail(keep))
    ELSE Compress(Tail(s), Tail(keep))

\* the set of the elements of a sequence
Range(q) == {q[i] : i \in 1..Len(q)}

\* s[idx[1]], s[idx[2]], ...: numpy's s[idx] for an index array
Gather(s, idx) == [i \in 1..Len(idx) |-> s[idx[i]]]

\* np.where(cond)[0] for a boolean array cond, as an ascending sequence of
\* rows
RECURSIVE WhereFrom(_, _)
WhereFrom(cond, i) ==
    IF i > Len(cond) THEN <<>>
    ELSE IF cond[i] THEN <<i>> \o WhereFrom(cond, i + 1)
    ELSE WhereFrom(cond, i + 1)

Where(cond) == WhereFrom(cond, 1)

----------------------------------------------------------------------------
(* Mixture states.  A component's parameters (its column of muhat, Vhat,   *)
(* invVhat and its entry of lambdahat, nuhat, ahat) are identified by the  *)
(* set of fitted components <<channel, k>> they were estimated from: a     *)
(* singleton for a fitted component, a union for a merged one.  Each of    *)
(* the six arrays is kept as its own sequence, as in the code.             *)

NoParam ==
    [none |-> TRUE, muhat |-> <<>>, Vhat |-> <<>>, invVhat |-> <<>>,
     lambdahat |-> <<>>, nuhat |-> <<>>, ahat |-> <<>>, rhat |-> <<>>]

\* mfm.vbPar with all six parameter arrays equal to tags and the given rhat
MkParam(tags, rhat) ==
    [none |-> FALSE, muhat |-> tags, Vhat |-> tags, invVhat |-> tags,
     lambdahat |-> tags, nuhat |-> tags, ahat |-> tags, rhat |-> rhat]

\* vbParam.muhat.shape[1]
NComp(vb) == Len(vb.muhat)

\* rhat.shape[1] of a dense responsibility matrix with at least one row
NCols(rhat) == IF rhat = <<>> THEN 0 ELSE Len(rhat[1])

Column(rhat, k) == [n \in 1..Len(rhat) |-> rhat[n][k]]

----------------------------------------------------------------------------
(* The external fitter mfm.spikesort: any number of components K and, per  *)
(* spike, a row of K probabilities that sums to 1.                         *)

Grain == One \div Unit

Hot(K, k) == [j \in 1..K |-> IF j = k THEN One ELSE 0]

SplitRow(K, k1, k2, a) ==
    [j \in 1..K |-> IF j = k1 THEN a * Grain
                    ELSE IF j = k2 THEN (Unit - a) * Grain ELSE 0]

\* every component gets 1/K; with K = Unit every entry is below the floor
Diffuse(K) == [j \in 1..K |-> One \div K]

\* (6/11, 5/11): both entries survive the floor
BalancedA == (Unit + 1) \div 2
\* (10/11, 1/11): the smaller entry is below the floor
LopsidedA == Unit - 1

RowSet(K) ==
    LET M == Min(K, MaxK) IN
    {Hot(K, k) : k \in 1..M}
    \cup {SplitRow(K, k[1], k[2], a) :
            k \in {q \in (1..M) \X (1..M) : q[1] < q[2]},
            a \in {BalancedA, LopsidedA}}
    \cup (IF K = Unit THEN {Diffuse(K)} ELSE {})

FitK == (1..MaxK) \cup {Unit}

FitterOutputs(c, n) ==
    UNION {{MkParam([k \in 1..K |-> {<<c, k>>}], rows) :
                rows \in [1..n -> RowSet(K)]} : K \in FitK}

----------------------------------------------------------------------------
(* Post-processing of the responsibilities *)

\* vbParam.rhat[vbParam.rhat < 0.1] = 0
FloorRhat(rhat) ==
    [n \in 1..Len(rhat) |->
        [k \in 1..Len(rhat[n]) |->
            IF ~IsNaN(rhat[n][k]) /\ rhat[n][k] * FloorDen < FloorNum * One
            THEN 0 ELSE rhat[n][k]]]

\* vbParam.rhat = vbParam.rhat / np.sum(vbParam.rhat, 1, keepdims=True)
Renormalise(rhat) ==
    [n \in 1..Len(rhat) |->
        [k \in 1..Len(rhat[n]) |-> Div(rhat[n][k], SumSeq(rhat[n]))]]

\* n_hat = np.sum(vbParam.rhat, 0)
NHat(rhat) == [k \in 1..NCols(rhat) |-> SumSeq(Column(rhat, k))]

\* mutant of KeepMask: ">=" in place of ">"
KeepMaskGe(rhat, m) ==
    [k \in 1..NCols(rhat) |->
        ~IsNaN(NHat(rhat)[k]) /\ NHat(rhat)[k] >= m * One]

\* Ks = n_hat > min_spikes
KeepMask(rhat, m) == [k \in 1..NCols(rhat) |-> Gt(NHat(rhat)[k], m * One)]

\* mutant of clean_empty_cluster: ahat is left as it was
CleanKeepingAhat(vb, m) ==
    LET Ks == KeepMask(vb.rhat, m) IN
    [none      |-> FALSE,
     muhat     |-> Compress(vb.muhat, Ks),
     Vhat      |-> Compress(vb.Vhat, Ks),
     invVhat   |-> Compress(vb.invVhat, Ks),
     lambdahat |-> Compress(vb.lambdahat, Ks),
     nuhat     |-> Compress(vb.nuhat, Ks),
     ahat      |-> vb.ahat,
     rhat      |-> [n \in 1..Len(vb.rhat) |-> Compress(vb.rhat[n], Ks)]]

clean_empty_cluster(vb, m) ==
    LET Ks == KeepMask(vb.rhat, m) IN
    [none      |-> FALSE,
     muhat     |-> Compress(vb.muhat, Ks),
     Vhat      |-> Compress(vb.Vhat, Ks),
     invVhat   |-> Compress(vb.invVhat, Ks),
     lambdahat |-> Compress(vb.lambdahat, Ks),
     nuhat     |-> Compress(vb.nuhat, Ks),
     ahat      |-> Compress(vb.ahat, Ks),
     rhat      |-> [n \in 1..Len(vb.rhat) |-> Compress(vb.rhat[n], Ks)]]

----------------------------------------------------------------------------
(* global_cluster_info *)

\* the triplets <<n, k, p>> of one dense row, columns ascending
RECURSIVE RowTriplets(_, _, _)
RowTriplets(row, n, k) ==
    IF k > Len(row) THEN <<>>
    ELSE IF Gt(row[k], 0)
         THEN <<<<n - 1, k - 1, row[k]>>>> \o RowTriplets(row, n, k + 1)
         ELSE RowTriplets(row, n, k + 1)

\* n_idx, k_idx = np.where(rhat > 0); hstack((n_idx, k_idx, prob_val)):
\* row-major order, 0-based ids
RECURSIVE TripletsFrom(_, _)
TripletsFrom(rhat, n) ==
    IF n > Len(rhat) THEN <<>>
    ELSE RowTriplets(rhat[n], n, 1) \o TripletsFrom(rhat, n + 1)

Triplets(rhat) == TripletsFrom(rhat, 1)

\* mutant of Shift: the component offset is k_max instead of k_max + 1
ShiftReusingId(trip, dn, dk) ==
    [i \in 1..Len(trip) |-> <<trip[i][1] + dn, trip[i][2] + dk - 1, trip[i][3]>>]

\* vbParam.rhat[:, 0] += dn; vbParam.rhat[:, 1] += dk
Shift(trip, dn, dk) ==
    [i \in 1..Len(trip) |-> <<trip[i][1] + dn, trip[i][2] + dk, trip[i][3]>>]

SpikeIds(trip) == {trip[i][1] : i \in 1..Len(trip)}
CompIds(trip) == {trip[i][2] : i \in 1..Len(trip)}

\* np.ones(vbParam.muhat.shape[1], 'int16') * main_channel
LocOf(vb, c) == [k \in 1..NComp(vb) |-> c]

\* The result of one call: the four globals, the triplets it appended and
\* whether np.max raised ValueError on an empty global triplet array.
global_cluster_info(vb, main_channel, score, si, gvb, gloc, gscore, gsi) ==
    LET trip == Triplets(vb.rhat) IN
    IF gvb.none
    THEN [raised |-> FALSE,
          vbParam |-> [vb EXCEPT !.rhat = trip],
          tmp_loc |-> LocOf(vb, main_channel),
          score |-> score,
          spike_index |-> si,
          added |-> trip]
    ELSE LET cat == [none      |-> FALSE,
                     muhat     |-> gvb.muhat \o vb.muhat,
                     Vhat      |-> gvb.Vhat \o vb.Vhat,
                     invVhat   |-> gvb.invVhat \o vb.invVhat,
                     lambdahat |-> gvb.lambdahat \o vb.lambdahat,
                     nuhat     |-> gvb.nuhat \o vb.nuhat,
                     ahat      |-> gvb.ahat \o vb.ahat,
                     rhat      |-> gvb.rhat]
         IN
         IF gvb.rhat = <<>>
         THEN \* np.max over a zero-size array raises; the parameter arrays
              \* of the global object are already concatenated
              [raised |-> TRUE, vbParam |-> cat, tmp_loc |-> gloc,
               score |-> gscore, spike_index |-> gsi, added |-> <<>>]
         ELSE LET n_max == MaxOf(SpikeIds(gvb.rhat))
                  k_max == MaxOf(CompIds(gvb.rhat))
                  shifted == Shift(trip, n_max + 1, k_max + 1)
              IN [raised |-> FALSE,
                  vbParam |-> [cat EXCEPT !.rhat = gvb.rhat \o shifted],
                  tmp_loc |-> gloc \o LocOf(vb, main_channel),
                  score |-> gscore \o score,
                  spike_index |-> gsi \o si,
                  added |-> shifted]

----------------------------------------------------------------------------
(* run_cluster and run_cluster_location, one action per step of the loop   *)
(* body.  The two differ in the guard before global_cluster_info.          *)

Orchestrators == {"run_cluster", "run_cluster_location"}

\* the channel columns a spike_index of n rows can hold
ChannelColumns == UNION {[1..n -> 0..(MaxChannels - 1)] : n \in 1..MaxSpikes}

\* spike i fires at time i: times are distinct and ascending
WithTimes(chs) == [i \in 1..Len(chs) |-> <<i, chs[i]>>]

score_channel == Gather(scores, idx_data)
spike_index_channel == Gather(spike_index, idx_data)
n_data == Len(idx_data)

NoOp == [kind |-> "none", ka |-> 0, kb |-> 0]

Init ==
    /\ orch \in Orchestrators
    /\ min_spikes \in 0..MaxMinSpikes
    /\ spike_index \in {WithTimes(chs) : chs \in ChannelColumns}
    /\ scores = [i \in 1..Len(spike_index) |-> i]
    /\ n_channels = MaxOf({spike_index[i][2] : i \in 1..Len(spike_index)}) + 1
    /\ channel = 0
    /\ pc = "select"
    /\ idx_data = <<>>
    /\ vbParam = NoParam
    /\ global_vbParam = NoParam
    /\ global_tmp_loc = <<>>
    /\ global_score = <<>>
    /\ global_spike_index = <<>>
    /\ fold_log = <<>>
    /\ clean_log = <<>>
    /\ fitted = {}
    /\ engine = "none"
    /\ maha = <<>>
    /\ cluster = 0
    /\ neigh_clusters = <<>>
    /\ last_op = NoOp
    /\ ident = <<>>
    /\ rejected = {}
    /\ mmp_log = [k0 |-> 0, accepted |-> 0, covers |-> FALSE]
    /\ idx_keep1 = <<>>
    /\ indexes = <<>>
    /\ index_vals = <<>>
    /\ vbParam2 = <<>>
    /\ rolling_index_array = <<>>
    /\ rounds = 0
    /\ mfm_exit = "none"
    /\ cluster_ctr = 0
    /\ spike_list = <<>>
    /\ tmp_loc = <<>>
    /\ spike_train_clustered = <<>>

\* mutant of EnoughData: a single spike is enough
EnoughDataOne(n) == n > 0

\* if n_data > 1
EnoughData(n) == n > 1

\* idx_data = np.where(spike_index[:, 1] == channel)[0];
\* score_channel = scores[idx_data], an IndexError when a row of idx_data
\* is not a row of scores; if n_data > 1
Select ==
    /\ pc = "select"
    /\ channel < n_channels
    /\ LET OnChannel == [i \in 1..Len(spike_index) |-> spike_index[i][2] = channel]
           idx == Where(OnChannel)
       IN /\ idx_data' = idx
          /\ IF \E i \in 1..Len(idx) : idx[i] > Len(scores)
             THEN /\ pc' = "error"
                  /\ UNCHANGED channel
             ELSE IF EnoughData(Len(idx))
             THEN /\ pc' = "fit"
                  /\ UNCHANGED channel
             ELSE /\ pc' = "select"
                  /\ channel' = channel + 1
    /\ UNCHANGED <<orch, min_spikes, spike_index, scores, n_channels, vbParam,
                   global_vbParam, global_tmp_loc, global_score,
                   global_spike_index, fold_log, clean_log, fitted>>
    /\ UNCHANGED mergeVars
    /\ UNCHANGED featVars

\* vbParam = mfm.spikesort(np.copy(score_channel), mask, group, CONFIG)
Fit ==
    /\ pc = "fit"
    /\ \E out \in FitterOutputs(channel, n_data) : vbParam' = out
    /\ fitted' = fitted \cup {channel}
    /\ pc' = "sparse"
    /\ UNCHANGED <<orch, min_spikes, spike_index, scores, n_channels, channel,
                   idx_data, global_vbParam, global_tmp_loc, global_score,
                   global_spike_index, fold_log, clean_log>>
    /\ UNCHANGED mergeVars
    /\ UNCHANGED featVars

\* "make rhat more sparse": the floor, then the row renormalisation
MakeSparse ==
    /\ pc = "sparse"
    /\ vbParam' = [vbParam EXCEPT !.rhat = Renormalise(FloorRhat(@))]
    /\ pc' = "clean"
    /\ UNCHANGED <<orch, min_spikes, spike_index, scores, n_channels, channel,
                   idx_data, global_vbParam, global_tmp_loc, global_score,
                   global_spike_index, fold_log, clean_log, fitted>>
    /\ UNCHANGED mergeVars
    /\ UNCHANGED featVars

\* mutant of FoldGuard: single-component channels are skipped too
FoldGuardStrict(o, vb) == o = "run_cluster" \/ NCols(vb.rhat) > 1

\* run_cluster_location folds only "if vbParam.rhat.shape[1] > 0";
\* run_cluster folds unconditionally
FoldGuard(o, vb) == o = "run_cluster" \/ NCols(vb.rhat) > 0

\* vbParam = clean_empty_cluster(vbParam, min_spikes)
Clean ==
    /\ pc = "clean"
    /\ LET vb == clean_empty_cluster(vbParam, min_spikes) IN
       /\ vbParam' = vb
       /\ IF FoldGuard(orch, vb)
          THEN /\ pc' = "fold"
               /\ UNCHANGED channel
          ELSE /\ pc' = "select"
               /\ channel' = channel + 1
    /\ clean_log' = Append(clean_log,
                            [channel |-> channel,
                             ncomp |-> NComp(clean_empty_cluster(vbParam,
                                                                 min_spikes))])
    /\ UNCHANGED <<orch, min_spikes, spike_index, scores, n_channels, idx_data,
                   global_vbParam, global_tmp_loc, global_score,
                   global_spike_index, fold_log, fitted>>
    /\ UNCHANGED mergeVars
    /\ UNCHANGED featVars

\* the call of global_cluster_info and the assignment of its result
Fold ==
    /\ pc = "fold"
    /\ LET r == global_cluster_info(vbParam, channel, score_channel,
                                    spike_index_channel, global_vbParam,
                                    global_tmp_loc, global_score,
                                    global_spike_index)
       IN /\ global_vbParam' = r.vbParam
          /\ global_tmp_loc' = r.tmp_loc
          /\ global_score' = r.score
          /\ global_spike_index' = r.spike_index
          /\ fold_log' = Append(fold_log,
                                [channel |-> channel, ncomp |-> NComp(vbParam),
                                 raised |-> r.raised, added |-> r.added])
          /\ IF r.raised
             THEN /\ pc' = "error"
                  /\ UNCHANGED channel
             ELSE /\ pc' = "select"
                  /\ channel' = channel + 1
    /\ UNCHANGED <<orch, min_spikes, spike_index, scores, n_channels, idx_data,
                   vbParam, clean_log, fitted>>
    /\ UNCHANGED mergeVars
    /\ UNCHANGED featVars

\* return global_vbParam, global_tmp_loc, global_score, global_spike_index
Return ==
    /\ pc = "select"
    /\ channel = n_channels
    /\ pc' = "done"
    /\ UNCHANGED <<orch, min_spikes, spike_index, scores, n_channels, channel,
                   idx_data, vbParam, global_vbParam, global_tmp_loc,
                   global_score, global_spike_index, fold_log, clean_log, fitted>>
    /\ UNCHANGED mergeVars
    /\ UNCHANGED featVars

Next == Select \/ Fit \/ MakeSparse \/ Clean \/ Fold \/ Return

Spec == Init /\ [][Next]_vars

\* The orchestrators on arguments nothing has validated: scores one row
\* shorter or longer than spike_index, and spikes whose channel is -1.
UncheckedColumns ==
    UNION {[1..n -> (0 - 1)..(MaxChannels - 2)] : n \in 1..MaxSpikes}

InitUnchecked ==
    /\ orch \in Orchestrators
    /\ min_spikes \in 0..MaxMinSpikes
    /\ spike_index \in {WithTimes(chs) : chs \in UncheckedColumns}
    /\ scores \in {[i \in 1..n |-> i] :
                      n \in (Len(spike_index) - 1)..(Len(spike_index) + 1)}
    /\ n_channels = MaxOf({spike_index[i][2] : i \in 1..Len(spike_index)}) + 1
    /\ channel = 0
    /\ pc = "select"
    /\ idx_data = <<>>
    /\ vbParam = NoParam
    /\ global_vbParam = NoParam
    /\ global_tmp_loc = <<>>
    /\ global_score = <<>>
    /\ global_spike_index = <<>>
    /\ fold_log = <<>>
    /\ clean_log = <<>>
    /\ fitted = {}
    /\ engine = "none"
    /\ maha = <<>>
    /\ cluster = 0
    /\ neigh_clusters = <<>>
    /\ last_op = NoOp
    /\ ident = <<>>
    /\ rejected = {}
    /\ mmp_log = [k0 |-> 0, accepted |-> 0, covers |-> FALSE]
    /\ idx_keep1 = <<>>
    /\ indexes = <<>>
    /\ index_vals = <<>>
    /\ vbParam2 = <<>>
    /\ rolling_index_array = <<>>
    /\ rounds = 0
    /\ mfm_exit = "none"
    /\ cluster_ctr = 0
    /\ spike_list = <<>>
    /\ tmp_loc = <<>>
    /\ spike_train_clustered = <<>>

SpecUnchecked == InitUnchecked /\ [][Next]_vars

\* The orchestrator on a first channel of FoldSpikes spikes followed by a
\* channel of two: enough for a pruned column to leave a spike of the first
\* channel without any triplet while other columns of the channel remain.
FoldSpikes == 3      \* spikes on the first channel

FoldColumn == [i \in 1..(FoldSpikes + 2) |-> IF i <= FoldSpikes THEN 0 ELSE 1]

InitFold ==
    /\ orch = "run_cluster_location"
    /\ min_spikes \in 0..MaxMinSpikes
    /\ spike_index = WithTimes(FoldColumn)
    /\ scores = [i \in 1..Len(spike_index) |-> i]
    /\ n_channels = MaxOf({spike_index[i][2] : i \in 1..Len(spike_index)}) + 1
    /\ channel = 0
    /\ pc = "select"
    /\ idx_data = <<>>
    /\ vbParam = NoParam
    /\ global_vbParam = NoParam
    /\ global_tmp_loc = <<>>
    /\ global_score = <<>>
    /\ global_spike_index = <<>>
    /\ fold_log = <<>>
    /\ clean_log = <<>>
    /\ fitted = {}
    /\ engine = "none"
    /\ maha = <<>>
    /\ cluster = 0
    /\ neigh_clusters = <<>>
    /\ last_op = NoOp
    /\ ident = <<>>
    /\ rejected = {}
    /\ mmp_log = [k0 |-> 0, accepted |-> 0, covers |-> FALSE]
    /\ idx_keep1 = <<>>
    /\ indexes = <<>>
    /\ index_vals = <<>>
    /\ vbParam2 = <<>>
    /\ rolling_index_array = <<>>
    /\ rounds = 0
    /\ mfm_exit = "none"
    /\ cluster_ctr = 0
    /\ spike_list = <<>>
    /\ tmp_loc = <<>>
    /\ spike_train_clustered = <<>>

SpecFold == InitFold /\ [][Next]_vars

----------------------------------------------------------------------------
(* The distance matrix.  A squared distance is a number that depends on    *)
(* the components' parameters; only its position relative to the merge     *)
(* gate matters, so a distance is Near (below the gate) or Far (not below  *)
(* it).  Inf stands for np.inf.                                            *)

MaxMergeK == 3       \* the merge phase is entered with at most this many components

Gate == 15           \* np.logical_or(maha[ka] < 15, maha.T[ka] < 15)
Near == Gate - 1
Far == Gate
Inf == Gate * Gate
Finite == {Near, Far}

\* maha[np.diag_indices(maha.shape[0])] = np.inf
SetDiagInf(m) ==
    [a \in 1..Len(m) |-> [b \in 1..Len(m) |-> IF a = b THEN Inf ELSE m[a][b]]]

\* the matrices calculate_maha_clusters can return for K components
MahaMatrices(K) == {SetDiagInf(m) : m \in [1..K -> [1..K -> Finite]]}

\* np.delete(s, k, axis) for a 0-based index k
DeleteAt(s, k) ==
    [i \in 1..(Len(s) - 1) |-> IF i <= k THEN s[i] ELSE s[i + 1]]

\* mutant of DeleteRowCol: the last row and column are deleted
DeleteLastRowCol(m, kb) ==
    [a \in 1..(Len(m) - 1) |-> [b \in 1..(Len(m) - 1) |-> m[a][b]]]

\* maha = np.delete(maha, kb, 1); maha = np.delete(maha, kb, 0)
DeleteRowCol(m, kb) ==
    LET cols == [a \in 1..Len(m) |-> DeleteAt(m[a], kb)] IN DeleteAt(cols, kb)

\* mutant of MahaAfterMerge: maha[ka, ka] = np.inf is missing
MahaAfterMergeNoDiag(m, ka, kb, row, col) ==
    LET d == DeleteRowCol(m, kb) IN
    [a \in 1..Len(d) |->
        [b \in 1..Len(d) |->
            IF b = ka + 1 THEN col[a]
            ELSE IF a = ka + 1 THEN row[b]
            ELSE d[a][b]]]

\* the accepted branch: row and column kb deleted, maha[ka] = row,
\* maha[:, ka] = col, maha[ka, ka] = np.inf
MahaAfterMerge(m, ka, kb, row, col) ==
    LET d == DeleteRowCol(m, kb) IN
    [a \in 1..Len(d) |->
        [b \in 1..Len(d) |->
            IF a = ka + 1 /\ b = ka + 1 THEN Inf
            ELSE IF b = ka + 1 THEN col[a]
            ELSE IF a = ka + 1 THEN row[b]
            ELSE d[a][b]]]

\* mutant of MahaAfterReject: the whole row of kb is set
MahaAfterRejectRow(m, ka, kb) ==
    [a \in 1..Len(m) |->
        [b \in 1..Len(m) |->
            IF a = kb + 1 \/ (a = ka + 1 /\ b = kb + 1) THEN Inf ELSE m[a][b]]]

\* mutant of MahaAfterReject: only maha[ka, kb] is set
MahaAfterRejectOneWay(m, ka, kb) ==
    [m EXCEPT ![ka + 1][kb + 1] = Inf]

\* the rejected branch: maha[ka, kb] = maha[kb, ka] = np.inf
MahaAfterReject(m, ka, kb) ==
    [m EXCEPT ![ka + 1][kb + 1] = Inf, ![kb + 1][ka + 1] = Inf]

\* the parameter arrays after an accepted merge: entry kb deleted, entry ka
\* replaced by the merged component's (local_vbParam.x[0])
MergedTag(vb, ka, kb) == vb.muhat[ka + 1] \cup vb.muhat[kb + 1]

MergeArray(arr, ka, kb, tag) == [DeleteAt(arr, kb) EXCEPT ![ka + 1] = tag]

MergeParams(vb, ka, kb, rhat) ==
    LET tag == MergedTag(vb, ka, kb) IN
    [none      |-> FALSE,
     muhat     |-> MergeArray(vb.muhat, ka, kb, tag),
     Vhat      |-> MergeArray(vb.Vhat, ka, kb, tag),
     invVhat   |-> MergeArray(vb.invVhat, ka, kb, tag),
     lambdahat |-> MergeArray(vb.lambdahat, ka, kb, tag),
     nuhat     |-> MergeArray(vb.nuhat, ka, kb, tag),
     ahat      |-> MergeArray(vb.ahat, ka, kb, tag),
     rhat      |-> rhat]

----------------------------------------------------------------------------
(* try_merge: rhat is the triplet array *)

\* an ascending sequence of the elements of a finite set of integers
RECURSIVE SortedSeq(_)
SortedSeq(S) ==
    IF S = {} THEN <<>>
    ELSE LET x == CHOOSE y \in S : \A z \in S : y <= z
         IN <<x>> \o SortedSeq(S \ {x})

\* indices = np.unique(assignment[np.logical_or(idx_ka, idx_kb), 0])
PairIndices(trip, ka, kb) ==
    SortedSeq({trip[i][1] : i \in {j \in 1..Len(trip) : trip[j][2] \in {ka, kb}}})

\* rhat[assignment[idx_k, 0], col] = vbParam.rhat[idx_k, 2]: the value
\* written last for spike n, 0 where nothing is written
LocalVal(trip, n, k) ==
    LET hits == {i \in 1..Len(trip) : trip[i][1] = n /\ trip[i][2] = k} IN
    IF hits = {} THEN 0 ELSE trip[MaxOf(hits)][3]

\* mutant of DropPair: the ids above kb are not moved down
DropPairNoShift(trip, ka, kb) ==
    Compress(trip, [i \in 1..Len(trip) |-> trip[i][2] \notin {ka, kb}])

\* np.delete(vbParam.rhat, idx_delete, 0); rhat[rhat[:, 1] > kb, 1] -= 1
RECURSIVE DropPair(_, _, _)
DropPair(trip, ka, kb) ==
    IF trip = <<>> THEN <<>>
    ELSE LET t == Head(trip) IN
         IF t[2] \in {ka, kb} THEN DropPair(Tail(trip), ka, kb)
         ELSE <<IF t[2] > kb THEN <<t[1], t[2] - 1, t[3]>> ELSE t>>
              \o DropPair(Tail(trip), ka, kb)

\* mutant of MergeTriplets: the merged rows carry only ka's responsibility
MergeTripletsKaOnly(trip, ka, kb) ==
    LET indices == PairIndices(trip, ka, kb) IN
    DropPair(trip, ka, kb)
    \o [i \in 1..Len(indices) |-> <<indices[i], ka, LocalVal(trip, indices[i], ka)>>]

\* rhat_temp = hstack((indices, ones * ka, np.sum(rhat, 1)));
\* vbParam.rhat = np.vstack((vbParam.rhat, rhat_temp))
MergeTriplets(trip, ka, kb) ==
    LET indices == PairIndices(trip, ka, kb) IN
    DropPair(trip, ka, kb)
    \o [i \in 1..Len(indices) |->
          <<indices[i], ka,
            Add(LocalVal(trip, indices[i], ka), LocalVal(trip, indices[i], kb))>>]

----------------------------------------------------------------------------
(* merge_move_patches: rhat is a sparse spikes x components matrix, held   *)
(* here as its dense rows                                                  *)

\* the sparse matrix with entry (n, k) = p for every triplet (n, k, p)
ToMatrix(trip, nrows, K) ==
    [n \in 1..nrows |-> [k \in 1..K |-> LocalVal(trip, n - 1, k - 1)]]

\* rhat[:, ka] = rhat[:, ka] + rhat[:, kb]; rhat = rhat[:, to_keep]
MergeColumns(rhat, ka, kb) ==
    [n \in 1..Len(rhat) |->
        DeleteAt([rhat[n] EXCEPT ![ka + 1] = Add(rhat[n][ka + 1], rhat[n][kb + 1])],
                 kb)]

Lt(x, y) == x # Inf /\ x < y

\* mutant of GateQueue: only the row maha[ka] is compared with the gate
GateQueueRowOnly(m, ka) ==
    LET InGate == [j \in 1..Len(m) |-> Lt(m[ka + 1][j], Gate)]
        rows == Where(InGate)
    IN [i \in 1..Len(rows) |-> rows[i] - 1]

\* mutant of GateQueue: only the column maha.T[ka] is compared with the gate
GateQueueColOnly(m, ka) ==
    LET InGate == [j \in 1..Len(m) |-> Lt(m[j][ka + 1], Gate)]
        rows == Where(InGate)
    IN [i \in 1..Len(rows) |-> rows[i] - 1]

\* list(np.where(np.logical_or(maha[ka] < 15, maha.T[ka] < 15))[0])
GateQueue(m, ka) ==
    LET InGate == [j \in 1..Len(m) |->
                          Lt(m[ka + 1][j], Gate) \/ Lt(m[j][ka + 1], Gate)]
        rows == Where(InGate)
    IN [i \in 1..Len(rows) |-> rows[i] - 1]

MaxQueue == 2        \* length of the queue a caller passes

\* the queues a caller can pass: lists, in any order and with repetitions,
\* of components other than the anchor
Queues(K, anchor) ==
    UNION {[1..n -> (0..(K - 1)) \ {anchor}] : n \in 0..MaxQueue}

----------------------------------------------------------------------------
(* The merge phase *)

Engines == {"try_merge", "merge_move_patches"}

GlobalK == NComp(global_vbParam)

\* the matrices whose two directions agree
SymmetricMatrices(K) ==
    {m \in MahaMatrices(K) : \A a, b \in 1..K : m[a][b] = m[b][a]}

\* maha = calculate_maha_clusters(global_vbParam), for one of the engines;
\* the result is one of the matrices Ms, for at most cap components
CalcMaha(Ms, cap) ==
    /\ pc = "done"
    /\ ~global_vbParam.none
    /\ GlobalK >= 2
    /\ GlobalK <= cap
    /\ \E e \in Engines :
          /\ engine' = e
          /\ global_vbParam' =
                IF e = "try_merge" THEN global_vbParam
                ELSE [global_vbParam EXCEPT
                        !.rhat = ToMatrix(@, Len(global_score), GlobalK)]
    /\ \E m \in Ms : maha' = m
    /\ ident' = [k \in 1..GlobalK |-> k]
    /\ pc' = "merge"
    /\ UNCHANGED <<cluster, neigh_clusters, last_op, rejected, mmp_log>>
    /\ UNCHANGED <<idx_data, vbParam, channel, global_tmp_loc, global_score,
                   global_spike_index, fold_log, clean_log, fitted>>
    /\ UNCHANGED inputVars
    /\ UNCHANGED featVars

CalculateMaha == CalcMaha(MahaMatrices(GlobalK), MaxMergeK)

\* history of a rejected pair: the components' names and parameters
RejectRecord(ka, kb) ==
    [a |-> ident[ka + 1], b |-> ident[kb + 1],
     ta |-> global_vbParam.muhat[ka + 1], tb |-> global_vbParam.muhat[kb + 1]]

\* the distances of the merged component ka to and from the K components
\* left: any value for the others, 0 (diff = 0) for itself
Recomputed(K, ka) == {d \in [1..K -> Finite] : d[ka + 1] = Near}

\* the <<row, col>> pairs of one recomputation; sym: both directions agree
RecomputedPairs(K, ka, sym) ==
    {rc \in Recomputed(K, ka) \X Recomputed(K, ka) : sym => rc[1] = rc[2]}

\* the effect on maha and on the parameter arrays that try_merge and
\* merge_move_patches share, for the answer merged of mfm.check_merge
MergeOutcome(ka, kb, merged, rhat_merged, sym) ==
    IF merged
    THEN /\ \E rc \in RecomputedPairs(GlobalK - 1, ka, sym) :
               maha' = MahaAfterMerge(maha, ka, kb, rc[1], rc[2])
         /\ global_vbParam' = MergeParams(global_vbParam, ka, kb, rhat_merged)
         /\ ident' = DeleteAt(ident, kb)
         /\ last_op' = [kind |-> "accept", ka |-> ka, kb |-> kb]
         /\ UNCHANGED rejected
    ELSE /\ maha' = MahaAfterReject(maha, ka, kb)
         /\ rejected' = rejected \cup {RejectRecord(ka, kb)}
         /\ last_op' = [kind |-> "reject", ka |-> ka, kb |-> kb]
         /\ UNCHANGED <<global_vbParam, ident>>

\* mfm.check_merge raises: neither engine catches the exception, which
\* leaves the call before any assignment to vbParam or maha
TestRaises(ka, kb) ==
    /\ pc' = "error"
    /\ last_op' = [kind |-> "raised", ka |-> ka, kb |-> kb]
    /\ UNCHANGED <<maha, global_vbParam, ident, rejected>>

\* one call try_merge(k1, k2, ...) on a pair within the gate
TryMergeOn(sym) ==
    /\ pc = "merge"
    /\ engine = "try_merge"
    /\ \E k1, k2 \in 0..(GlobalK - 1) :
          /\ k1 # k2
          /\ Lt(maha[k1 + 1][k2 + 1], Gate) \/ Lt(maha[k2 + 1][k1 + 1], Gate)
          /\ LET ka == Min(k1, k2)
                 kb == Max(k1, k2)
             IN \/ /\ \E merged \in BOOLEAN :
                         MergeOutcome(ka, kb, merged,
                                      MergeTriplets(global_vbParam.rhat, ka, kb),
                                      sym)
                   /\ UNCHANGED pc
                \/ TestRaises(ka, kb)
    /\ UNCHANGED <<engine, cluster, neigh_clusters, mmp_log>>
    /\ UNCHANGED <<idx_data, vbParam, channel, global_tmp_loc, global_score,
                   global_spike_index, fold_log, clean_log, fitted>>
    /\ UNCHANGED inputVars
    /\ UNCHANGED featVars

TryMerge == TryMergeOn(FALSE)

\* the call merge_move_patches(cluster, neigh_clusters, ...) with one of
\* the queues a caller can pass for the anchor c: any of them, or (gated)
\* exactly the components within the gate of the anchor
MmpCall(gated) ==
    /\ pc = "merge"
    /\ engine = "merge_move_patches"
    /\ \E c \in 0..(GlobalK - 1) :
          /\ cluster' = c
          /\ \E q \in (IF gated THEN {GateQueue(maha, c)}
                                  ELSE Queues(GlobalK, c)) :
                /\ neigh_clusters' = q
                /\ mmp_log' = [k0 |-> GlobalK, accepted |-> 0,
                               covers |-> Range(GateQueue(maha, c))
                                            \subseteq Range(q)]
    /\ pc' = "mmp"
    /\ last_op' = NoOp
    /\ UNCHANGED <<engine, maha, ident, rejected, global_vbParam>>
    /\ UNCHANGED <<idx_data, vbParam, channel, global_tmp_loc, global_score,
                   global_spike_index, fold_log, clean_log, fitted>>
    /\ UNCHANGED inputVars
    /\ UNCHANGED featVars

MmpStart == MmpCall(FALSE)

\* mutant of Pop: the rejected candidate stays in the queue
PopNothing(q) == q

\* neigh_clusters.pop()
Pop(q) == SubSeq(q, 1, Len(q) - 1)

\* one iteration of "while len(neigh_clusters) > 0"
MmpStepOn(sym) ==
    /\ pc = "mmp"
    /\ Len(neigh_clusters) > 0
    /\ LET i == neigh_clusters[Len(neigh_clusters)]
           ka == Min(cluster, i)
           kb == Max(cluster, i)
       IN \/ \E merged \in BOOLEAN :
                /\ MergeOutcome(ka, kb, merged,
                                MergeColumns(global_vbParam.rhat, ka, kb), sym)
                /\ IF merged
                   THEN /\ neigh_clusters' = GateQueue(maha', ka)
                        /\ cluster' = ka
                        /\ mmp_log' = [mmp_log EXCEPT !.accepted = @ + 1]
                   ELSE /\ neigh_clusters' = Pop(neigh_clusters)
                        /\ UNCHANGED <<cluster, mmp_log>>
                /\ UNCHANGED pc
          \/ /\ TestRaises(ka, kb)
             /\ UNCHANGED <<cluster, neigh_clusters, mmp_log>>
    /\ UNCHANGED engine
    /\ UNCHANGED <<idx_data, vbParam, channel, global_tmp_loc, global_score,
                   global_spike_index, fold_log, clean_log, fitted>>
    /\ UNCHANGED inputVars
    /\ UNCHANGED featVars

MmpStep == MmpStepOn(FALSE)

\* return vbParam, maha
MmpReturn ==
    /\ pc = "mmp"
    /\ Len(neigh_clusters) = 0
    /\ pc' = "merge"
    /\ last_op' = NoOp
    /\ UNCHANGED <<engine, maha, cluster, neigh_clusters, ident, rejected,
                   global_vbParam, mmp_log>>
    /\ UNCHANGED <<idx_data, vbParam, channel, global_tmp_loc, global_score,
                   global_spike_index, fold_log, clean_log, fitted>>
    /\ UNCHANGED inputVars
    /\ UNCHANGED featVars

\* the runs the merge engine is studied on: run_cluster_location over two
\* channels of two spikes each
InitMerge ==
    /\ Init
    /\ orch = "run_cluster_location"
    /\ spike_index = WithTimes(<<0, 0, 1, 1>>)

NextMerge ==
    \/ Select \/ Fit \/ MakeSparse \/ Clean \/ Fold \/ Return
    \/ CalculateMaha \/ TryMerge \/ MmpStart \/ MmpStep \/ MmpReturn

SpecMerge == InitMerge /\ [][NextMerge]_vars

\* The merge engine on one component more: the runs in which the fitter
\* assigns every spike wholly to one of at most MaxK components, min_spikes
\* is 0 and the computed distances agree in both directions.
IsHot(row) == \E k \in 1..Len(row) : row = Hot(Len(row), k)

FitHot ==
    /\ Fit
    /\ NComp(vbParam') <= MaxK
    /\ \A n \in 1..Len(vbParam'.rhat) : IsHot(vbParam'.rhat[n])

CalculateMahaSym == CalcMaha(SymmetricMatrices(GlobalK), MaxMergeK + 1)

\* the queue holds exactly the components within the gate of the anchor
MmpStartGate == MmpCall(TRUE)

TryMergeSym == TryMergeOn(TRUE)

MmpStepSym == MmpStepOn(TRUE)

InitMergeHot == InitMerge /\ min_spikes = 0

NextMergeHot ==
    \/ Select \/ FitHot \/ MakeSparse \/ Clean \/ Fold \/ Return
    \/ CalculateMahaSym \/ TryMergeSym \/ MmpStartGate \/ MmpStepSym \/ MmpReturn

SpecMergeHot == InitMergeHot /\ [][NextMergeHot]_vars

----------------------------------------------------------------------------
(* run_mfm and run_cluster_features.  The waveforms, their alignment and   *)
(* the PCA only feed the external fitter, whose answer is any rhat with    *)
(* one row per point passed in.  The model runs the loops on small numbers *)
(* of points: MinLeft stands for the 35 of "data_in.shape[0] <= 35", and   *)
(* RoundCap for the 1000 of "for s in range(1000)".                        *)

RoundCap == 3        \* iterations of the stability loop (1000 in the code)
MinLeft == 0         \* the loop is left with this many points or fewer (35)
NFeatChannels == 2   \* channels run_cluster_features visits (np.arange(49))
MaxFeatSpikes == 5   \* spikes on the channels run_cluster_features visits
MaxOnChannel == 3    \* spikes on one channel

StableNum == 9       \* np.mean(vbParam2.rhat[index, k]) > 0.90
StableDen == 10

MinOf(S) == CHOOSE y \in S : \A z \in S : y <= z

\* index = np.where(vbParam2.rhat[:, k] > 0)[0], 1-based rows
IndexOf(rhat, k) == Where([n \in 1..Len(rhat) |-> Gt(rhat[n][k], 0)])

\* np.sum(vbParam2.rhat[index, k]); the mean is this sum over len(index)
StabSum(rhat, k) == SumSeq(Gather(Column(rhat, k), IndexOf(rhat, k)))

\* np.mean(vbParam2.rhat[index, k]) > 0.90; the mean of no entry is NaN
IsStable(rhat, k) ==
    /\ Len(IndexOf(rhat, k)) > 0
    /\ StabSum(rhat, k) * StableDen > StableNum * Len(IndexOf(rhat, k)) * One

\* stability[j] > stability[k] for two means that are not NaN
MeanGt(rhat, j, k) ==
    StabSum(rhat, j) * Len(IndexOf(rhat, k))
        > StabSum(rhat, k) * Len(IndexOf(rhat, j))

\* np.argmax(stability): the first NaN if there is one, else the first
\* largest mean (1-based column)
MostStable(rhat) ==
    LET K == NCols(rhat)
        nan == {k \in 1..K : Len(IndexOf(rhat, k)) = 0}
    IN IF nan # {} THEN MinOf(nan)
       ELSE MinOf({k \in 1..K : \A j \in 1..K : ~MeanGt(rhat, j, k)})

\* np.delete(arr, rows, axis=0) for a set of 1-based rows
DeleteRows(arr, rows) == Compress(arr, [i \in 1..Len(arr) |-> i \notin rows])

\* The extraction of one iteration (lines 764-812): the groups appended to
\* rolling_index_array and the rows deleted from index_vals.  Every cluster
\* with mean responsibility above 0.90 is extracted; if there is none, the
\* cluster np.argmax picks.
Extraction(rhat, iv) ==
    LET K == NCols(rhat)
        stable == SortedSeq({k \in 1..K : IsStable(rhat, k)})
    IN IF Len(stable) > 0
       THEN [groups |-> [i \in 1..Len(stable) |->
                            Gather(iv, IndexOf(rhat, stable[i]))],
             remove_indexes |->
                UNION {Range(IndexOf(rhat, stable[i])) : i \in 1..Len(stable)}]
       ELSE LET index == IndexOf(rhat, MostStable(rhat))
            IN [groups |-> <<Gather(iv, index)>>,
                remove_indexes |-> Range(index)]

\* mutant of TooFew: the loop is never left for lack of points
TooFewNever(n) == n < 0

\* if data_in.shape[0] <= 35: break
TooFew(n) == n <= MinLeft

\* vbParam2 = mfm.spikesort(kk, mask, group, CONFIG) on n points, then the
\* floor and the row renormalisation
FitPoints(c, n) ==
    {Renormalise(FloorRhat(out.rhat)) : out \in FitterOutputs(c, n)}

StabPoints == 10     \* points of the working set in the runs on block fits

\* a fit of two components in which the first a points are wholly of
\* component 0, the next s points are shared (6/11, 5/11) and the others are
\* wholly of component 1
BlockRows(n, a, s) ==
    [i \in 1..n |-> IF i <= a THEN Hot(2, 1)
                    ELSE IF i <= a + s THEN SplitRow(2, 1, 2, BalancedA)
                    ELSE Hot(2, 2)]

\* the answers of the fitter, floored and renormalised, on which the loop
\* is run with more points: one component, or two with at most one shared
\* point
BlockFits(n) ==
    {[i \in 1..n |-> <<One>>]}
    \cup {Renormalise(FloorRhat(BlockRows(n, as[1], as[2]))) :
             as \in {x \in (0..n) \X (0..1) : x[1] + x[2] <= n}}

\* the fits the loop is run on: all of the fitter's answers, or (blocks)
\* the block fits
Fits(blocks, c, n) == IF blocks THEN BlockFits(n) ELSE FitPoints(c, n)

\* the spike_index_clear arguments: rows <<time, channel>>, times distinct
\* and ascending
FeatInputs ==
    {WithTimes(chs) :
        chs \in {q \in UNION {[1..n -> 0..(NFeatChannels - 1)] :
                                  n \in 1..MaxFeatSpikes} :
                   \A c \in 0..(NFeatChannels - 1) :
                      Cardinality({i \in 1..Len(q) : q[i] = c}) <= MaxOnChannel}}

InitFeatures ==
    /\ orch = "run_cluster_features"
    /\ min_spikes = 0
    /\ spike_index \in FeatInputs
    /\ scores = [i \in 1..Len(spike_index) |-> i]
    /\ n_channels = NFeatChannels
    /\ channel = 0
    /\ pc = "feat_select"
    /\ idx_data = <<>>
    /\ vbParam = NoParam
    /\ global_vbParam = NoParam
    /\ global_tmp_loc = <<>>
    /\ global_score = <<>>
    /\ global_spike_index = <<>>
    /\ fold_log = <<>>
    /\ clean_log = <<>>
    /\ fitted = {}
    /\ engine = "none"
    /\ maha = <<>>
    /\ cluster = 0
    /\ neigh_clusters = <<>>
    /\ last_op = NoOp
    /\ ident = <<>>
    /\ rejected = {}
    /\ mmp_log = [k0 |-> 0, accepted |-> 0, covers |-> FALSE]
    /\ idx_keep1 = <<>>
    /\ indexes = <<>>
    /\ index_vals = <<>>
    /\ vbParam2 = <<>>
    /\ rolling_index_array = <<>>
    /\ rounds = 0
    /\ mfm_exit = "none"
    /\ cluster_ctr = 0
    /\ spike_list = <<>>
    /\ tmp_loc = <<>>
    /\ spike_train_clustered = <<>>

\* The triage masks idx_keep1 = dist < np.percentile(dist, 90) over n
\* spikes: the spike with the largest distance is never below the
\* percentile, so at least one spike is dropped.
TriageMasks(n) == {m \in [1..n -> BOOLEAN] : \E i \in 1..n : ~m[i]}

\* lines 648-710: the channel's spikes, the triage and the two PCAs.  PCA
\* (sklearn) raises ValueError on an array of zero samples.
FeatSelect ==
    /\ pc = "feat_select"
    /\ channel < n_channels
    /\ LET rows == Where([i \in 1..Len(spike_index) |->
                              spike_index[i][2] = channel])
       IN IF rows = <<>>
          THEN /\ pc' = "error"
               /\ UNCHANGED <<idx_keep1, indexes>>
          ELSE \E m \in TriageMasks(Len(rows)) :
                  /\ idx_keep1' = m
                  /\ indexes' = Compress(rows, m)
                  /\ pc' = IF Compress(rows, m) = <<>> THEN "error"
                           ELSE "mfm_init"
    /\ UNCHANGED <<index_vals, vbParam2, rolling_index_array, rounds, mfm_exit,
                   cluster_ctr, spike_list, tmp_loc, spike_train_clustered,
                   channel>>
    /\ UNCHANGED <<inputVars, orchVars, mergeVars>>

\* run_mfm, lines 740-760: index_vals and the initial fit
MfmInitOn(blocks) ==
    /\ pc = "mfm_init"
    /\ LET n == Len(Where(idx_keep1)) IN
       /\ index_vals' = [i \in 1..n |-> i - 1]
       /\ \E rhat \in Fits(blocks, channel, n) : vbParam2' = rhat
    /\ rolling_index_array' = <<>>
    /\ rounds' = 0
    /\ mfm_exit' = "none"
    /\ pc' = "mfm_loop"
    /\ UNCHANGED <<idx_keep1, indexes, cluster_ctr, spike_list, tmp_loc,
                   spike_train_clustered, channel>>
    /\ UNCHANGED <<inputVars, orchVars, mergeVars>>

MfmInit == MfmInitOn(FALSE)

\* one iteration of "for s in range(1000)", lines 761-866: the extraction,
\* the test on the number of points left, the refit and the test on the
\* number of components; after the last iteration the loop ends
MfmRoundOn(blocks) ==
    /\ pc = "mfm_loop"
    /\ rounds < RoundCap
    /\ LET x == Extraction(vbParam2, index_vals)
           left == DeleteRows(index_vals, x.remove_indexes)
           extracted == rolling_index_array \o x.groups
       IN /\ index_vals' = left
          /\ rounds' = rounds + 1
          /\ IF TooFew(Len(left))
             THEN /\ rolling_index_array' = extracted
                  /\ mfm_exit' = "few"
                  /\ pc' = "emit"
                  /\ UNCHANGED vbParam2
             ELSE \E rhat \in Fits(blocks, channel, Len(left)) :
                     /\ vbParam2' = rhat
                     /\ IF NCols(rhat) = 1
                        THEN /\ rolling_index_array' = Append(extracted, left)
                             /\ mfm_exit' = "single"
                             /\ pc' = "emit"
                        ELSE /\ rolling_index_array' = extracted
                             /\ mfm_exit' = IF rounds + 1 = RoundCap
                                            THEN "cap" ELSE "none"
                             /\ pc' = IF rounds + 1 = RoundCap
                                      THEN "emit" ELSE "mfm_loop"
    /\ UNCHANGED <<idx_keep1, indexes, cluster_ctr, spike_list, tmp_loc,
                   spike_train_clustered, channel>>
    /\ UNCHANGED <<inputVars, orchVars, mergeVars>>

MfmRound == MfmRoundOn(FALSE)

\* mutant of GroupRows: the group indexes spike_index_clear directly
GroupRowsUnmapped(si, idx, group, id) ==
    [j \in 1..Len(group) |-> <<si[group[j] + 1][1], id>>]

\* temp[:, 0] = spike_index_clear[:, 0][indexes[group]]; temp[:, 1] = id
GroupRows(si, idx, group, id) ==
    [j \in 1..Len(group) |-> <<si[idx[group[j] + 1]][1], id>>]

\* mutant of NextCtr: the counter starts again at every channel
NextCtrPerChannel(ctr, groups) == Len(groups)

\* cluster_ctr += 1, once per group
NextCtr(ctr, groups) == ctr + Len(groups)

\* "return rolling_index_array" and lines 721-727: one array of rows, one
\* cluster id and one tmp_loc entry per group.  The locals of run_mfm end
\* with the call.
FeatEmit ==
    /\ pc = "emit"
    /\ spike_list' =
          spike_list \o
          [c \in 1..Len(rolling_index_array) |->
              GroupRows(spike_index, indexes, rolling_index_array[c],
                        cluster_ctr + c - 1)]
    /\ cluster_ctr' = NextCtr(cluster_ctr, rolling_index_array)
    /\ tmp_loc' = tmp_loc \o [c \in 1..Len(rolling_index_array) |-> channel]
    /\ channel' = channel + 1
    /\ pc' = "feat_select"
    /\ index_vals' = <<>>
    /\ vbParam2' = <<>>
    /\ rolling_index_array' = <<>>
    /\ rounds' = 0
    /\ mfm_exit' = "none"
    /\ UNCHANGED <<idx_keep1, indexes, spike_train_clustered>>
    /\ UNCHANGED <<inputVars, orchVars, mergeVars>>

\* np.vstack(spike_list)
RECURSIVE VStack(_)
VStack(arrays) ==
    IF arrays = <<>> THEN <<>> ELSE Head(arrays) \o VStack(Tail(arrays))

\* The arrays s[np.argsort(s[:, 0])] can be: the rows of s in an order of
\* ascending time; argsort's default sort leaves the order of equal times
\* open.
Argsorted(rows) ==
    {[i \in 1..Len(rows) |-> rows[p[i]]] :
        p \in {q \in [1..Len(rows) -> 1..Len(rows)] :
                 /\ \A i, j \in 1..Len(rows) : i # j => q[i] # q[j]
                 /\ \A i \in 1..(Len(rows) - 1) :
                       rows[q[i]][1] <= rows[q[i + 1]][1]}}

\* lines 731-735: the spike train in time order
FeatReturn ==
    /\ pc = "feat_select"
    /\ channel = n_channels
    /\ \E sorted \in Argsorted(VStack(spike_list)) :
          spike_train_clustered' = sorted
    /\ pc' = "feat_done"
    /\ UNCHANGED <<idx_keep1, indexes, index_vals, vbParam2,
                   rolling_index_array, rounds, mfm_exit, cluster_ctr,
                   spike_list, tmp_loc, channel>>
    /\ UNCHANGED <<inputVars, orchVars, mergeVars>>

NextFeatures == FeatSelect \/ MfmInit \/ MfmRound \/ FeatEmit \/ FeatReturn

SpecFeatures == InitFeatures /\ [][NextFeatures]_vars

\* run_mfm on one channel of up to StabPoints retained points (the triage
\* dropped the channel's last spike), with the block fits
InitStability ==
    /\ orch = "run_cluster_features"
    /\ min_spikes = 0
    /\ spike_index \in {WithTimes([i \in 1..(n + 1) |-> 0]) : n \in 1..StabPoints}
    /\ scores = [i \in 1..Len(spike_index) |-> i]
    /\ n_channels = 1
    /\ channel = 0
    /\ pc = "mfm_init"
    /\ idx_data = <<>>
    /\ vbParam = NoParam
    /\ global_vbParam = NoParam
    /\ global_tmp_loc = <<>>
    /\ global_score = <<>>
    /\ global_spike_index = <<>>
    /\ fold_log = <<>>
    /\ clean_log = <<>>
    /\ fitted = {}
    /\ engine = "none"
    /\ maha = <<>>
    /\ cluster = 0
    /\ neigh_clusters = <<>>
    /\ last_op = NoOp
    /\ ident = <<>>
    /\ rejected = {}
    /\ mmp_log = [k0 |-> 0, accepted |-> 0, covers |-> FALSE]
    /\ idx_keep1 = [i \in 1..Len(spike_index) |-> i < Len(spike_index)]
    /\ indexes = [i \in 1..(Len(spike_index) - 1) |-> i]
    /\ index_vals = <<>>
    /\ vbParam2 = <<>>
    /\ rolling_index_array = <<>>
    /\ rounds = 0
    /\ mfm_exit = "none"
    /\ cluster_ctr = 0
    /\ spike_list = <<>>
    /\ tmp_loc = <<>>
    /\ spike_train_clustered = <<>>

MfmInitBlocks == MfmInitOn(TRUE)

MfmRoundBlocks == MfmRoundOn(TRUE)

NextStability == MfmInitBlocks \/ MfmRoundBlocks \/ FeatEmit

SpecStability == InitStability /\ [][NextStability]_vars

----------------------------------------------------------------------------
(* Properties of the orchestrators and the aggregator *)

OrchPcs == {"select", "fit", "sparse", "clean", "fold", "done"}

SpikeCount(c) == Cardinality({i \in 1..Len(spike_index) : spike_index[i][2] = c})

\* sum of the retained (> 0) entries of one dense row
RetainedSum(row) ==
    SumSeq([k \in 1..Len(row) |-> IF Gt(row[k], 0) THEN row[k] ELSE 0])

HasRetained(row) == \E k \in 1..Len(row) : Gt(row[k], 0)

\* sum of the probabilities the triplets record for spike id n
RECURSIVE TripSum(_, _)
TripSum(trip, n) ==
    IF trip = <<>> THEN 0
    ELSE Add(IF Head(trip)[1] = n THEN Head(trip)[3] ELSE 0,
             TripSum(Tail(trip), n))

\* the channels the parameters of global component k (1-based) come from
ParamChannels(vb, k) ==
    {x[1] : x \in vb.muhat[k] \cup vb.Vhat[k] \cup vb.invVhat[k]
                  \cup vb.lambdahat[k] \cup vb.nuhat[k] \cup vb.ahat[k]}

SameLengths(vb) ==
    /\ Len(vb.Vhat) = NComp(vb)
    /\ Len(vb.invVhat) = NComp(vb)
    /\ Len(vb.lambdahat) = NComp(vb)
    /\ Len(vb.nuhat) = NComp(vb)
    /\ Len(vb.ahat) = NComp(vb)

RECURSIVE SumNComp(_)
SumNComp(log) == IF log = <<>> THEN 0 ELSE Head(log).ncomp + SumNComp(Tail(log))

\* C1: in the mixture state handed to global_cluster_info (after the floor,
\* the renormalisation and clean_empty_cluster) and in the global triplets,
\* every spike with a retained entry has retained entries that sum to 1.
C1_RetainedRowsSumToOne ==
    /\ pc = "fold" =>
         \A n \in 1..Len(vbParam.rhat) :
            HasRetained(vbParam.rhat[n]) => RetainedSum(vbParam.rhat[n]) = One
    /\ (pc \in OrchPcs /\ ~global_vbParam.none) =>
         \A n \in SpikeIds(global_vbParam.rhat) :
            TripSum(global_vbParam.rhat, n) = One

\* C2: a spike whose responsibilities are all below the floor ends as an
\* unassigned all-zero row, and no NaN reaches the renormalised matrix, the
\* column masses n_hat used for pruning, or the global triplets.
C2_FlooredRowNoNaN ==
    /\ pc \in {"clean", "fold"} =>
         \A n \in 1..Len(vbParam.rhat) : \A k \in 1..Len(vbParam.rhat[n]) :
            ~IsNaN(vbParam.rhat[n][k])
    /\ pc = "clean" =>
         \A k \in 1..NCols(vbParam.rhat) : ~IsNaN(NHat(vbParam.rhat)[k])
    /\ (pc \in OrchPcs /\ ~global_vbParam.none) =>
         \A i \in 1..Len(global_vbParam.rhat) : ~IsNaN(global_vbParam.rhat[i][3])

\* C3: the component ids of the triplets contributed by different folds are
\* disjoint, and for every triplet (n, k, p) contributed by the fold of
\* channel c, global_tmp_loc[k] = c and column k of every parameter array
\* is a component fitted on channel c.
C3_GlobalIdsUnique ==
    pc \in OrchPcs =>
      \A i \in 1..Len(fold_log) :
         /\ \A j \in 1..Len(fold_log) :
               j # i => CompIds(fold_log[i].added) \cap CompIds(fold_log[j].added) = {}
         /\ \A t \in 1..Len(fold_log[i].added) :
               LET k == fold_log[i].added[t][2] + 1 IN
               /\ k <= Len(global_tmp_loc)
               /\ global_tmp_loc[k] = fold_log[i].channel
               /\ k <= NComp(global_vbParam)
               /\ SameLengths(global_vbParam)
               /\ ParamChannels(global_vbParam, k) = {fold_log[i].channel}
               /\ \E g \in 1..Len(global_vbParam.rhat) :
                     global_vbParam.rhat[g] = fold_log[i].added[t]

\* two folds that both contributed triplets
C3_Witness ==
    /\ pc = "done"
    /\ \E i, j \in 1..Len(fold_log) :
          i < j /\ fold_log[i].added # <<>> /\ fold_log[j].added # <<>>

\* C4: after every fold made by an orchestrator, len(global_tmp_loc) equals
\* the number of global components (in every parameter array) and equals the
\* largest component id in the global triplets plus one (no id at all
\* counting as -1, for a collection of zero components).
C4_LocLenIsCompCount ==
    (pc \in OrchPcs /\ ~global_vbParam.none) =>
      /\ Len(global_tmp_loc) = NComp(global_vbParam)
      /\ SameLengths(global_vbParam)
      /\ NComp(global_vbParam) = MaxOf(CompIds(global_vbParam.rhat)) + 1

\* after the second fold, with three or more components
C4_Witness ==
    /\ pc = "select"
    /\ Len(fold_log) >= 2
    /\ NComp(global_vbParam) >= 3
    /\ \E i \in 1..Len(fold_log) : fold_log[i].ncomp = 1

\* C8: a channel with fewer than 2 spikes is never fitted, cleaned or
\* folded, and nothing of it is in the global collection.
C8_ShortChannelSkipped ==
    \A c \in 0..(MaxChannels - 1) :
       SpikeCount(c) < 2 =>
         /\ c \notin fitted
         /\ \A i \in 1..Len(clean_log) : clean_log[i].channel # c
         /\ \A i \in 1..Len(fold_log) : fold_log[i].channel # c
         /\ \A k \in 1..Len(global_tmp_loc) : global_tmp_loc[k] # c
         /\ \A k \in 1..NComp(global_vbParam) : c \notin ParamChannels(global_vbParam, k)
         /\ \A i \in 1..Len(global_spike_index) : global_spike_index[i][2] # c
         /\ \A i \in 1..Len(global_score) : spike_index[global_score[i]][2] # c

\* a finished run that skipped a one-spike channel and folded a later one
C8_Witness ==
    /\ pc = "done"
    /\ \E c \in 0..(MaxChannels - 1) :
          /\ SpikeCount(c) = 1
          /\ \E j \in 1..Len(fold_log) :
                c < fold_log[j].channel /\ fold_log[j].ncomp > 0

\* C9: global_cluster_info is called for a channel only if at least one
\* component remains after pruning, and no later fold fails.
C9_EmptyChannelNotFolded ==
    /\ \A i \in 1..Len(fold_log) : fold_log[i].ncomp > 0 /\ ~fold_log[i].raised
    /\ pc # "error"

\* C10: when the run returns, the global component count is the sum of the
\* channels' component counts after pruning.
C10_CountIsSumOverChannels ==
    pc = "done" => NComp(global_vbParam) = SumNComp(clean_log)

\* a finished run in which two channels kept components and one kept none
C10_Witness ==
    /\ pc = "done"
    /\ NComp(global_vbParam) >= 3
    /\ Len(clean_log) >= 2
    /\ \E i \in 1..Len(clean_log) : clean_log[i].ncomp = 2

----------------------------------------------------------------------------
(* Properties of the merge engine *)

MergePcs == {"merge", "mmp"}

\* total responsibility of component k (0-based), in either representation
RECURSIVE TripMass(_, _)
TripMass(trip, k) ==
    IF trip = <<>> THEN 0
    ELSE Add(IF Head(trip)[2] = k THEN Head(trip)[3] ELSE 0,
             TripMass(Tail(trip), k))

Mass(e, rhat, k) ==
    IF e = "try_merge" THEN TripMass(rhat, k) ELSE SumSeq(Column(rhat, k + 1))

\* C5: a step in which the merge test accepts removes exactly one
\* component, the survivor sits at the lower index of the pair (every other
\* component keeps its parameters, those above the removed index moved down
\* by one), and the survivor's mass is the sum of the two masses before.
C5_AcceptedMerge ==
    [][(pc \in MergePcs /\ last_op'.kind = "accept") =>
         LET ka == last_op'.ka
             kb == last_op'.kb
         IN /\ ka < kb
            /\ NComp(global_vbParam') = NComp(global_vbParam) - 1
            /\ SameLengths(global_vbParam')
            /\ Len(maha') = NComp(global_vbParam')
            /\ global_vbParam'.muhat[ka + 1]
                 = global_vbParam.muhat[ka + 1] \cup global_vbParam.muhat[kb + 1]
            /\ \A k \in 1..NComp(global_vbParam') :
                  k # ka + 1 =>
                    global_vbParam'.muhat[k]
                      = global_vbParam.muhat[IF k <= kb THEN k ELSE k + 1]
            /\ Mass(engine, global_vbParam'.rhat, ka)
                 = Add(Mass(engine, global_vbParam.rhat, ka),
                       Mass(engine, global_vbParam.rhat, kb))
            /\ ~IsNaN(Mass(engine, global_vbParam'.rhat, ka))]_vars

\* try_merge has just merged a pair below a third component, and a spike
\* had responsibility for both merged components
C5_Witness ==
    /\ pc = "merge"
    /\ engine = "try_merge"
    /\ last_op.kind = "accept"
    /\ last_op.kb < GlobalK
    /\ \E i \in 1..Len(global_vbParam.rhat) :
          /\ global_vbParam.rhat[i][2] = last_op.ka
          /\ global_vbParam.rhat[i][3] = One
          /\ \E j \in 1..Len(global_vbParam.rhat) :
                /\ global_vbParam.rhat[j][2] = last_op.ka
                /\ global_vbParam.rhat[j][3] < One

\* the positions (1-based) at which the component named x now sits
PosOf(x) == {a \in 1..Len(ident) : ident[a] = x}

BothInf(a, b) == maha[a][b] = Inf /\ maha[b][a] = Inf

\* C6 as claimed: the two entries of a rejected pair are +infinity for as
\* long as both components exist, a merge survivor being the same component.
C6_RejectedStaysInf ==
    pc \in MergePcs =>
      \A r \in rejected : \A a \in PosOf(r.a) : \A b \in PosOf(r.b) : BothInf(a, b)

\* C6 amended: the two entries of a rejected pair are +infinity for as long
\* as both components exist with the parameters they were tested with,
\* that is until one of them takes part in an accepted merge.
C6_RejectedStaysInfUntilMerged ==
    pc \in MergePcs =>
      \A r \in rejected : \A a \in PosOf(r.a) : \A b \in PosOf(r.b) :
         (global_vbParam.muhat[a] = r.ta /\ global_vbParam.muhat[b] = r.tb)
           => BothInf(a, b)

\* a rejected pair whose components were both moved down by an accepted
\* merge of two other components
C6_Witness ==
    /\ pc \in MergePcs
    /\ last_op.kind = "accept"
    /\ \E r \in rejected : \E a \in PosOf(r.a) : \E b \in PosOf(r.b) :
          /\ global_vbParam.muhat[a] = r.ta
          /\ global_vbParam.muhat[b] = r.tb
          /\ a # r.a
          /\ b # r.b

\* C7: the diagonal of maha is +infinity after calculate_maha_clusters and
\* after every return of try_merge and every iteration of merge_move_patches.
C7_DiagonalInf ==
    pc \in MergePcs =>
      /\ Len(maha) = GlobalK
      /\ \A a \in 1..Len(maha) : Len(maha[a]) = GlobalK /\ maha[a][a] = Inf

\* merge_move_patches has accepted a merge and then rejected a candidate
C7_Witness ==
    /\ pc = "mmp"
    /\ last_op.kind = "reject"
    /\ GlobalK = 2
    /\ Len(ident) < MaxMergeK

----------------------------------------------------------------------------
(* Properties of run_mfm and run_cluster_features *)

\* the stability loop runs on only while neither stop condition holds, and
\* each way of leaving it is a normal return
LoopBounded ==
    /\ rounds <= RoundCap
    /\ pc = "mfm_loop" =>
         /\ rounds < RoundCap
         /\ rounds > 0 => (Len(index_vals) > MinLeft /\ NCols(vbParam2) # 1)
    /\ pc = "emit" =>
         /\ rounds >= 1
         /\ mfm_exit \in {"few", "single", "cap"}
         /\ mfm_exit = "few" => Len(index_vals) <= MinLeft
         /\ mfm_exit = "single" =>
              (NCols(vbParam2) = 1 /\ Len(index_vals) > MinLeft)
         /\ mfm_exit = "cap" => rounds = RoundCap
         /\ Len(rolling_index_array) >= rounds

\* C11: the stability loop of run_mfm ends after at most RoundCap rounds
\* (1000 in the code): every iteration adds one to the round count, which
\* never exceeds the cap; the loop is left as soon as MinLeft (35) points or
\* fewer remain or a refit yields one component; and when the cap is
\* reached the function returns the groups extracted so far.
C11_StabilityLoopEnds ==
    /\ []LoopBounded
    /\ [][pc = "mfm_loop" =>
            (rounds' = rounds + 1 /\ pc' \in {"mfm_loop", "emit"})]_vars

\* the loop ran to the cap without a stop condition and returned its groups
C11_Witness ==
    /\ pc = "emit"
    /\ mfm_exit = "cap"
    /\ Len(index_vals) > MinLeft
    /\ Len(rolling_index_array) = RoundCap

\* the times of the spikes of channel c in spike_index_clear
TimesOn(c) == {spike_index[i][1] : i \in {j \in 1..Len(spike_index) :
                                              spike_index[j][2] = c}}

FeatPcs == {"feat_select", "mfm_init", "mfm_loop", "emit", "feat_done"}

\* C12: every index in a group of run_mfm, and every index still in the
\* working set, is one of 0..n-1 for the n points passed in; every row
\* run_cluster_features emits for a channel carries the time of a spike of
\* that channel.
C12_GroupsWithinWorkingSet ==
    /\ pc \in {"mfm_loop", "emit"} =>
         /\ \A c \in 1..Len(rolling_index_array) :
               Range(rolling_index_array[c]) \subseteq 0..(Len(indexes) - 1)
         /\ Range(index_vals) \subseteq 0..(Len(indexes) - 1)
    /\ pc \in FeatPcs =>
         /\ Len(tmp_loc) = Len(spike_list)
         /\ \A c \in 1..Len(spike_list) : \A j \in 1..Len(spike_list[c]) :
               spike_list[c][j][1] \in TimesOn(tmp_loc[c])
    /\ pc = "feat_done" =>
         \A i \in 1..Len(spike_train_clustered) :
            /\ spike_train_clustered[i][2] \in 0..(Len(tmp_loc) - 1)
            /\ spike_train_clustered[i][1]
                 \in TimesOn(tmp_loc[spike_train_clustered[i][2] + 1])

\* the second point of a channel, whose first spike was triaged away, was
\* extracted in a later round than the first point
C12_Witness ==
    /\ pc = "emit"
    /\ rounds >= 2
    /\ Len(indexes) = 2
    /\ ~idx_keep1[1]
    /\ rolling_index_array[1] = <<0>>
    /\ \E c \in 2..Len(rolling_index_array) : rolling_index_array[c] = <<1>>

\* the rows of the spike train that carry cluster id k
RowsOfId(train, k) == {i \in 1..Len(train) : train[i][2] = k}

\* C13: the returned spike train is in ascending time order and holds
\* exactly the rows of the groups; the rows of the c-th finalized group (over
\* all channels, counting from 0) carry the id c and no other rows do, and
\* tmp_loc has one entry per id issued.
C13_SortedTrainOneCounter ==
    /\ pc \in FeatPcs =>
         /\ cluster_ctr = Len(spike_list)
         /\ Len(tmp_loc) = cluster_ctr
         /\ \A c \in 1..Len(spike_list) : \A j \in 1..Len(spike_list[c]) :
               spike_list[c][j][2] = c - 1
    /\ pc = "feat_done" =>
         /\ \A i \in 1..(Len(spike_train_clustered) - 1) :
               spike_train_clustered[i][1] <= spike_train_clustered[i + 1][1]
         /\ Len(spike_train_clustered) = Len(VStack(spike_list))
         /\ \A c \in 1..Len(spike_list) :
               /\ Cardinality(RowsOfId(spike_train_clustered, c - 1))
                    = Len(spike_list[c])
               /\ \A j \in 1..Len(spike_list[c]) :
                     \E i \in RowsOfId(spike_train_clustered, c - 1) :
                        spike_train_clustered[i] = spike_list[c][j]

\* a finished run whose groups of two channels interleave in time
C13_Witness ==
    /\ pc = "feat_done"
    /\ \E i, j \in 1..Len(spike_train_clustered) :
          /\ i + 1 < j
          /\ tmp_loc[spike_train_clustered[i][2] + 1] = 1
          /\ tmp_loc[spike_train_clustered[i + 1][2] + 1] = 0
          /\ tmp_loc[spike_train_clustered[j][2] + 1] = 1
          /\ spike_train_clustered[i][2] # spike_train_clustered[j][2]

----------------------------------------------------------------------------
(* Properties of the orchestrators, continued *)

BadArguments ==
    \/ Len(scores) # Len(spike_index)
    \/ \E i \in 1..Len(spike_index) : spike_index[i][2] \notin 0..(MaxChannels - 1)

\* C15: on arguments of different lengths, or with a spike whose channel is
\* out of range, the orchestrator fails before any channel is fitted and
\* before the global collection exists; it never returns normally.
C15_FailFastOnBadArguments ==
    BadArguments => (fitted = {} /\ global_vbParam.none /\ pc # "done")

\* the columns (ascending) whose responsibility sum exceeds m spikes
HeavyColumns(rhat, m) ==
    SortedSeq({k \in 1..NCols(rhat) :
                 LET mass == SumSeq([n \in 1..Len(rhat) |-> rhat[n][k]])
                 IN ~IsNaN(mass) /\ mass > m * One})

\* arr[ks[1]], arr[ks[2]], ...
Pick(arr, ks) == [i \in 1..Len(ks) |-> arr[ks[i]]]

\* C16: a call of clean_empty_cluster keeps exactly the components whose
\* column sum is strictly greater than min_spikes, in their order, in each of
\* muhat, Vhat, invVhat, lambdahat, nuhat, ahat and in the columns of rhat;
\* a second call on the result changes nothing.
C16_CleanKeepsHeavyColumns ==
    [][pc = "clean" =>
         LET ks == HeavyColumns(vbParam.rhat, min_spikes) IN
         /\ vbParam'.muhat = Pick(vbParam.muhat, ks)
         /\ vbParam'.Vhat = Pick(vbParam.Vhat, ks)
         /\ vbParam'.invVhat = Pick(vbParam.invVhat, ks)
         /\ vbParam'.lambdahat = Pick(vbParam.lambdahat, ks)
         /\ vbParam'.nuhat = Pick(vbParam.nuhat, ks)
         /\ vbParam'.ahat = Pick(vbParam.ahat, ks)
         /\ vbParam'.rhat = [n \in 1..Len(vbParam.rhat) |->
                               Pick(vbParam.rhat[n], ks)]
         /\ clean_empty_cluster(vbParam', min_spikes) = vbParam']_vars

\* min_spikes = 1 and three spikes: the first component had exactly one
\* spike's mass and was dropped, the second had two and was kept
C16_Witness ==
    /\ pc = "fold"
    /\ min_spikes = 1
    /\ NComp(vbParam) = 1
    /\ vbParam.muhat[1] = {<<channel, 2>>}
    /\ vbParam.ahat[1] = {<<channel, 2>>}
    /\ Len(vbParam.rhat) = 3
    /\ SumSeq(Column(vbParam.rhat, 1)) = 2 * One

----------------------------------------------------------------------------
(* Properties of the merge engine, continued *)

\* C14: a merge test that raises is treated as a rejection: the engine goes
\* on, and both directed distances of the pair are +infinity.
C14_FailedTestIsRejection ==
    last_op.kind = "raised" =>
      /\ pc \in MergePcs
      /\ BothInf(last_op.ka + 1, last_op.kb + 1)

\* C17: a step in which the merge test rejects the pair (ka, kb) changes
\* nothing but maha[ka, kb] and maha[kb, ka], which become +infinity; in
\* merge_move_patches the anchor stays and the queue loses its last entry,
\* the candidate just tested.
C17_RejectChangesOnlyThePair ==
    [][(pc \in MergePcs /\ last_op'.kind = "reject") =>
         LET ka == last_op'.ka
             kb == last_op'.kb
         IN /\ global_vbParam' = global_vbParam
            /\ Len(maha') = Len(maha)
            /\ \A a, b \in 1..Len(maha) :
                  maha'[a][b] =
                     IF <<a, b>> \in {<<ka + 1, kb + 1>>, <<kb + 1, ka + 1>>}
                     THEN Inf ELSE maha[a][b]
            /\ pc' = pc
            /\ pc = "merge" => UNCHANGED <<cluster, neigh_clusters>>
            /\ pc = "mmp" =>
                 /\ cluster' = cluster
                 /\ {cluster, neigh_clusters[Len(neigh_clusters)]} = {ka, kb}
                 /\ neigh_clusters'
                      = SubSeq(neigh_clusters, 1, Len(neigh_clusters) - 1)]_vars

\* merge_move_patches has rejected a candidate, another one is still queued
\* and a distance outside the diagonal is still finite
C17_Witness ==
    /\ pc = "mmp"
    /\ last_op.kind = "reject"
    /\ Len(neigh_clusters) >= 1
    /\ GlobalK = MaxMergeK
    /\ \E a, b \in 1..Len(maha) : a # b /\ maha[a][b] # Inf

\* C18: right after merge_move_patches accepts a merge, the anchor is the
\* survivor (the lower index of the pair), and the queue holds, once each,
\* exactly the components j with maha[ka, j] < 15 or maha[j, ka] < 15; the
\* anchor is not among them.
C18_QueueRebuiltFromGate ==
    (pc = "mmp" /\ last_op.kind = "accept") =>
      LET ka == last_op.ka IN
      /\ ka < last_op.kb
      /\ cluster = ka
      /\ Range(neigh_clusters)
           = {j \in 0..(GlobalK - 1) :
                 maha[ka + 1][j + 1] < Gate \/ maha[j + 1][ka + 1] < Gate}
      /\ Cardinality(Range(neigh_clusters)) = Len(neigh_clusters)
      /\ cluster \notin Range(neigh_clusters)

\* the queue rebuilt after a merge holds a component that is within the gate
\* only in the direction towards the survivor
C18_Witness ==
    /\ pc = "mmp"
    /\ last_op.kind = "accept"
    /\ \E i \in 1..Len(neigh_clusters) :
          /\ maha[cluster + 1][neigh_clusters[i] + 1] = Far
          /\ maha[neigh_clusters[i] + 1][cluster + 1] = Near

\* C19: merge_move_patches terminates.  Every iteration of its loop either
\* accepts, which removes a component, or rejects, which keeps the components
\* and shortens the queue by one: the pair (component count, queue length)
\* decreases in the lexical order.  A call accepts at most (component count
\* at the call) - 1 merges, and at least one component is left.
C19_QueueDrains ==
    /\ [](pc = "mmp" =>
            /\ GlobalK >= 1
            /\ mmp_log.accepted <= mmp_log.k0 - 1
            /\ GlobalK = mmp_log.k0 - mmp_log.accepted
            /\ \A i \in 1..Len(neigh_clusters) :
                  neigh_clusters[i] \in (0..(GlobalK - 1)) \ {cluster})
    /\ [][(pc = "mmp" /\ pc' = "mmp") =>
            \/ /\ NComp(global_vbParam') = GlobalK - 1
               /\ mmp_log'.accepted = mmp_log.accepted + 1
            \/ /\ NComp(global_vbParam') = GlobalK
               /\ Len(neigh_clusters') = Len(neigh_clusters) - 1
               /\ mmp_log'.accepted = mmp_log.accepted]_vars

\* one call has merged every component into one, and its queue is empty
C19_Witness ==
    /\ pc = "mmp"
    /\ mmp_log.k0 = MaxMergeK
    /\ mmp_log.accepted = MaxMergeK - 1
    /\ neigh_clusters = <<>>

\* the index a component at index x (1-based) had before component kb
\* (0-based) was removed
Before(x, kb) == IF x <= kb THEN x ELSE x + 1

\* C20: a step in which the merge test accepts (ka, kb) shrinks maha by one
\* row and one column, and every entry between two components that are
\* neither the survivor nor the removed one keeps its value at the
\* renumbered position; only the survivor's row and column are new.
C20_MergeKeepsOtherDistances ==
    [][(pc \in MergePcs /\ last_op'.kind = "accept") =>
         LET ka == last_op'.ka
             kb == last_op'.kb
         IN /\ Len(maha') = Len(maha) - 1
            /\ \A a, b \in 1..Len(maha') :
                  (a # ka + 1 /\ b # ka + 1) =>
                     maha'[a][b] = maha[Before(a, kb)][Before(b, kb)]]_vars

\* components 0 and 1 of four were merged; the other two moved down by one
\* and a rejection between them is still recorded
C20_Witness ==
    /\ pc \in MergePcs
    /\ last_op = [kind |-> "accept", ka |-> 0, kb |-> 1]
    /\ GlobalK = MaxMergeK
    /\ Len(ident) = MaxMergeK
    /\ maha[2][3] = Inf
    /\ maha[1][2] # Inf

----------------------------------------------------------------------------
(* Properties of run_mfm and run_cluster_features, continued *)

\* the rows (1-based) with non-zero responsibility for component k
AssignedTo(rhat, k) == {n \in 1..Len(rhat) : rhat[n][k] > 0}

\* the sum of component k's responsibilities over its assigned rows
AssignedSum(rhat, k) ==
    SumSeq([n \in 1..Len(rhat) |-> IF rhat[n][k] > 0 THEN rhat[n][k] ELSE 0])

\* mean responsibility over the assigned rows above 0.90
MeanAboveThreshold(rhat, k) ==
    /\ AssignedTo(rhat, k) # {}
    /\ AssignedSum(rhat, k) * StableDen
         > StableNum * Cardinality(AssignedTo(rhat, k)) * One

\* component k has assigned rows and no component has a higher mean
HighestMean(rhat, k) ==
    /\ AssignedTo(rhat, k) # {}
    /\ \A j \in 1..NCols(rhat) :
          AssignedTo(rhat, j) # {} =>
            AssignedSum(rhat, j) * Cardinality(AssignedTo(rhat, k))
              <= AssignedSum(rhat, k) * Cardinality(AssignedTo(rhat, j))

\* the points of the working set iv at the rows S, in row order
PointsAt(iv, S) == Gather(iv, SortedSeq(S))

\* the groups a round appended to rolling_index_array
Appended ==
    SubSeq(rolling_index_array', Len(rolling_index_array) + 1,
           Len(rolling_index_array'))

\* C21: in a round of run_mfm every component whose mean responsibility
\* over its assigned points exceeds 0.90 is extracted as one group and its
\* points leave the working set; if no component qualifies exactly one group
\* is extracted, the points of the component with the highest mean
\* responsibility; if the refit yields a single component the remaining
\* points are appended as the last group and the loop stops.
C21_RoundExtractsStableComponents ==
    [][pc = "mfm_loop" =>
         LET K == NCols(vbParam2)
             stable == SortedSeq({k \in 1..K : MeanAboveThreshold(vbParam2, k)})
             n == IF Len(stable) > 0 THEN Len(stable) ELSE 1
             gone == UNION {Range(Appended[i]) : i \in 1..n}
         IN /\ Len(Appended) >= n
            /\ Len(stable) > 0 =>
                 \A i \in 1..Len(stable) :
                    Appended[i]
                      = PointsAt(index_vals, AssignedTo(vbParam2, stable[i]))
            /\ (Len(stable) = 0
                  /\ \E k \in 1..K : AssignedTo(vbParam2, k) # {}) =>
                 \E k \in 1..K :
                    /\ HighestMean(vbParam2, k)
                    /\ Appended[1]
                         = PointsAt(index_vals, AssignedTo(vbParam2, k))
            /\ Range(index_vals') = Range(index_vals) \ gone
            /\ IF mfm_exit' = "single"
               THEN /\ Len(Appended) = n + 1
                    /\ Appended[n + 1] = index_vals'
                    /\ pc' = "emit"
               ELSE Len(Appended) = n]_vars

\* C25: every round of the stability loop after which the loop goes on has
\* removed at least one point from the working set, and every group appended
\* to the result is non-empty.
C25_RoundRemovesAPoint ==
    [][pc = "mfm_loop" =>
         /\ pc' = "mfm_loop" => Len(index_vals') < Len(index_vals)
         /\ \A i \in 1..Len(Appended) : Appended[i] # <<>>]_vars

----------------------------------------------------------------------------
(* Properties of the aggregator, continued *)

\* C22: after every fold by global_cluster_info, each triplet (n, k, p) the
\* fold appended has as n the row, in global_score and global_spike_index,
\* of the spike whose responsibility it records (the rows already there
\* plus the spike's row within its channel), and the triplets already there
\* are unchanged.
C22_SpikeIdIsRowIndex ==
    [][(pc = "fold" /\ pc' # "error") =>
         LET old == Len(global_vbParam.rhat)
             base == Len(global_score)
             local == Triplets(vbParam.rhat)
         IN /\ Len(global_vbParam'.rhat) = old + Len(local)
            /\ SubSeq(global_vbParam'.rhat, 1, old) = global_vbParam.rhat
            /\ \A t \in 1..Len(local) :
                  LET n == global_vbParam'.rhat[old + t][1] IN
                  /\ n = base + local[t][1]
                  /\ n + 1 <= Len(global_score')
                  /\ global_score'[n + 1] = score_channel[local[t][1] + 1]
                  /\ global_spike_index'[n + 1]
                       = spike_index_channel[local[t][1] + 1]]_vars

----------------------------------------------------------------------------
(* Properties of the merge engine, continued *)

\* C23: during the merge phase global_tmp_loc has one entry per component
\* of the global collection, and entry k is a channel the component now at
\* index k was fitted on.
C23_OriginChannelPerComponent ==
    pc \in MergePcs =>
      /\ Len(global_tmp_loc) = GlobalK
      /\ \A k \in 1..GlobalK :
            global_tmp_loc[k] \in ParamChannels(global_vbParam, k)

\* the triplets of trip whose component id is in ks (keep = TRUE) or is not
\* in ks (keep = FALSE), in their order
TripletsOf(trip, ks, keep) ==
    Compress(trip, [i \in 1..Len(trip) |-> (trip[i][2] \in ks) = keep])

\* C26: an accepted merge of (ka, kb) by try_merge leaves every spike's
\* total responsibility as it was; the triplets of the other components are
\* unchanged, in their order, but for component ids above kb being one less;
\* every spike has at most one triplet for the survivor ka; and all component
\* ids are within 0..K-2, K being the component count before the merge.
C26_MergeKeepsTriplets ==
    [][(pc = "merge" /\ engine = "try_merge" /\ last_op'.kind = "accept") =>
         LET ka == last_op'.ka
             kb == last_op'.kb
             old == global_vbParam.rhat
             new == global_vbParam'.rhat
             others == TripletsOf(old, {ka, kb}, FALSE)
         IN /\ \A n \in SpikeIds(old) \cup SpikeIds(new) :
                  TripSum(new, n) = TripSum(old, n)
            /\ TripletsOf(new, {ka}, FALSE)
                 = [i \in 1..Len(others) |->
                      <<others[i][1],
                        IF others[i][2] > kb THEN others[i][2] - 1
                        ELSE others[i][2],
                        others[i][3]>>]
            /\ \A n \in SpikeIds(new) :
                  Cardinality({i \in 1..Len(new) :
                                  new[i][1] = n /\ new[i][2] = ka}) <= 1
            /\ CompIds(new) \subseteq 0..(GlobalK - 2)]_vars

\* try_merge has merged components 0 and 1 of three: the third component's
\* triplets now carry id 1, and the survivor holds two spikes
C26_Witness ==
    /\ pc = "merge"
    /\ engine = "try_merge"
    /\ last_op = [kind |-> "accept", ka |-> 0, kb |-> 1]
    /\ Len(ident) = 2
    /\ ident[2] = 3
    /\ Len(TripletsOf(global_vbParam.rhat, {1}, TRUE)) >= 2
    /\ Len(TripletsOf(global_vbParam.rhat, {0}, TRUE)) = 2

\* the components other than the anchor that are within the gate of it, in
\* either direction
WithinGateOfAnchor ==
    {j \in (0..(GlobalK - 1)) \ {cluster} :
        maha[cluster + 1][j + 1] < Gate \/ maha[j + 1][cluster + 1] < Gate}

\* C27: in a call of merge_move_patches whose queue held every component
\* within the gate of the anchor, every component within the gate of the
\* current anchor is in the queue at every test of the loop; so when the loop
\* ends (the queue is empty) and the function returns, maha[anchor, j] and
\* maha[j, anchor] are both >= 15 for every other component j.
C27_NoCandidateLeftAtReturn ==
    (pc = "mmp" /\ mmp_log.covers) =>
      /\ cluster \in 0..(GlobalK - 1)
      /\ WithinGateOfAnchor \subseteq Range(neigh_clusters)
      /\ neigh_clusters = <<>> =>
           \A j \in (0..(GlobalK - 1)) \ {cluster} :
              /\ maha[cluster + 1][j + 1] >= Gate
              /\ maha[j + 1][cluster + 1] >= Gate

\* the call is about to return: it merged two of three components, then
\* the candidate of the rebuilt queue was rejected
C27_Witness ==
    /\ pc = "mmp"
    /\ mmp_log = [k0 |-> MaxMergeK, accepted |-> 1, covers |-> TRUE]
    /\ neigh_clusters = <<>>
    /\ last_op.kind = "reject"
    /\ GlobalK = 2
    /\ BothInf(1, 2)

----------------------------------------------------------------------------
(* Properties of run_mfm and run_cluster_features, continued *)

\* the spike times in the rows of one emitted array
TimesIn(rows) == {rows[j][1] : j \in 1..Len(rows)}

\* C24: the groups of run_mfm are pairwise disjoint, no point index is in
\* two of them; and so no spike time is in the rows of two cluster ids that
\* run_cluster_features emits.
C24_GroupsDisjoint ==
    /\ pc \in {"mfm_loop", "emit"} =>
         \A c, d \in 1..Len(rolling_index_array) :
            c # d =>
              Range(rolling_index_array[c]) \cap Range(rolling_index_array[d]) = {}
    /\ pc \in FeatPcs =>
         \A c, d \in 1..Len(spike_list) :
            c # d => TimesIn(spike_list[c]) \cap TimesIn(spike_list[d]) = {}

====
